---------------------------- MODULE Spec2Model ----------------------------
(***************************************************************************)
(* A state-machine model of the data-acquisition pipeline of the FMP       *)
(* client (src/fmp_api.py):                                                *)
(*   - SpecFetch: one call of helper_data_auto_period, with the request    *)
(*     issued by get_json_parsed_data under the three task_queuing modes;  *)
(*   - SpecCollect: process_celery_results consuming a batch of handles;   *)
(*   - SpecFanout: get_all_symbol_data resolving start dates per sheet;    *)
(*   - SpecWorkers: construction and the start and stop of celery workers; *)
(*   - SpecSubmit: celery_submit_several_jobs_all_data building a batch;   *)
(*   - SpecCount: count_keys_nested of src/utils/dictionaries.py.          *)
(* The machines share the FMP object's fields (the variable self).         *)
(***************************************************************************)
EXTENDS Integers, Sequences, FiniteSets, TLC

VARIABLES
    self,      \* the fields of the FMP object read by the modelled methods
    hpc,       \* position inside helper_data_auto_period
    gpc,       \* position inside get_json_parsed_data
    args,      \* the running helper_data_auto_period call: start date, freq_type
    url,       \* the url of the request being issued
    n,         \* the retry counter of get_json_parsed_data
    trace,     \* what get_json_parsed_data did so far: sleeps, urlopen, submit, ...
    handles,   \* the celery AsyncResult objects created so far
    result,    \* the value returned by helper_data_auto_period
    exc,       \* the exception that left helper_data_auto_period, or "none"
    cpc,       \* position inside process_celery_results
    cargs,     \* arguments of the process_celery_results call: d, mandatory_sheets, ...
    pos,       \* the (sheet, symbol) being processed: indexes into the batch d
    resolved,  \* what cc.celery_process_results returned for each handle
    dp,        \* the dataset being built, sheet -> symbol -> value
    symbols_to_remove, \* the list of symbols recorded for removal
    pn,        \* the local counter n of process_celery_results
    summary,   \* the printed summary
    cexc,      \* the exception that left process_celery_results, or "none"
    collected, \* the (sheet, symbol) handles passed to cc.celery_process_results
    fpc,       \* position inside get_all_symbol_data
    fargs,     \* arguments of the get_all_symbol_data call
    fsheets,   \* the local list sheets after step 0
    fi,        \* index of the sheet of the running iteration
    fdate,     \* the local variable date_start, reassigned by the loop
    jobs,      \* the requests made so far: sheet, store lookup, start date, freq_type
    fdata,     \* the dictionary data being filled, as a sequence of (sheet, value)
    fexc,      \* the exception that left get_all_symbol_data, or "none"
    wpc,       \* "new" before FMP.__init__ has run, "ready" after
    worker_processes, \* self.worker_processes: the worker group held, 0 for None
    groups,    \* the worker groups that were started and are not stopped
    nstarts,   \* the number of calls of cc.celery_workers_start so far
    submissions, \* the calls of get_json_parsed_data under a queue strategy
    spc,       \* position inside celery_submit_several_jobs_all_data
    sargs,     \* arguments of the celery_submit_several_jobs_all_data call
    si,        \* index of the symbol of the running iteration
    sd,        \* the local dictionary d of step 1: symbol -> sheet -> handle
    submitted, \* the jobs submitted so far, (sheet, symbol); a handle is an index
    sbatch,    \* the returned dictionary: sheet -> symbol -> handle
    sexc,      \* the exception that left the call, or "none"
    kpc,       \* position of the count_keys_nested call
    kd,        \* the argument d of count_keys_nested
    klevel,    \* the argument level of count_keys_nested
    kres       \* what count_keys_nested returned

fetchVars == <<hpc, gpc, args, url, n, trace, handles, result, exc>>
collectVars == <<cpc, cargs, pos, resolved, dp, symbols_to_remove, pn, summary, cexc,
                 collected>>
fanoutVars == <<fpc, fargs, fsheets, fi, fdate, jobs, fdata, fexc>>
workerVars == <<wpc, worker_processes, groups, nstarts, submissions>>
submitVars == <<spc, sargs, si, sd, submitted, sbatch, sexc>>
countVars == <<kpc, kd, klevel, kres>>
notFetch == <<collectVars, fanoutVars, workerVars, submitVars, countVars>>
notCollect == <<fetchVars, fanoutVars, workerVars, submitVars, countVars>>
notFanout == <<fetchVars, collectVars, workerVars, submitVars, countVars>>
notWorkers == <<fetchVars, collectVars, fanoutVars, submitVars, countVars>>
notSubmit == <<fetchVars, collectVars, fanoutVars, workerVars, countVars>>
notCount == <<fetchVars, collectVars, fanoutVars, workerVars, submitVars>>
vars == <<self, fetchVars, collectVars, fanoutVars, workerVars, submitVars, countVars>>

-----------------------------------------------------------------------------
(* Bounds of the model *)
MaxRetries == 3
MaxYearSpan == 2
MaxSymbols == 2
MaxPaidSheets == 2
MaxStarts == 2
MaxLevel == 3

(* Program constants *)
DefaultYear == 2000
celery_worker_concurrency == 24

-----------------------------------------------------------------------------
(* Values *)

\* Python values of the date_start parameter: None, False, or a string
\* "YYYY-MM-DD", coded as the integer YYYYMMDD
NoneV == [t |-> "None", v |-> 0]
FalseV == [t |-> "bool", v |-> 0]
Str(d) == [t |-> "str", v |-> d]
\* the string "invalid", which is no date
TextInvalid == [t |-> "str", v |-> 0]
\* len(date_start) of a string: "YYYY-MM-DD" has 10 characters, "invalid" has 7
len(s) == IF s = TextInvalid THEN 7 ELSE 10

Years == DefaultYear..(DefaultYear + MaxYearSpan)
DateString(y, m, d) == y * 10000 + m * 100 + d
DateStrings == {Str(DateString(y, m, 1)) : y \in Years, m \in {1, 12}}
\* int(date_start[0:4])
YearOf(ds) == ds.v \div 10000

TaskQueuings == {"legacy", "celery_wait", "celery_submit"}
FreqTypes == {"None", "auto", "quarterly", "annually"}

\* what one urlopen call can do: fail at connection level, or answer with a payload
ConnectionErrors == {"URLError"}
Payloads == {"data", "empty", "Error Message"}
\* the exception classes res.wait(propagate=True) can re-raise for a failed task
CeleryTaskErrors == {"RequestError", "TaskError"}

\* datetime.date.today() at construction
Todays == [year : Years, month : {3, 4, 11}]

-----------------------------------------------------------------------------
(* FMP.__init__ *)

FMPObjects ==
    { [ task_queuing |-> tq,
        retries |-> r,
        date_start |-> ds,
        current_year |-> t.year,
        current_quarter |-> (t.month - 1) \div 3,
        flag_celery_workers_running |-> f,
        fmp_free_account |-> free ] :
      tq \in TaskQueuings, r \in 0..MaxRetries,
      ds \in {Str(DateString(DefaultYear, 1, 1)), TextInvalid},
      t \in Todays, f \in BOOLEAN, free \in BOOLEAN }

\* the constructor returned: the assertion of line 111 passed, and legacy
\* objects never start workers (lines 128, 163-175)
Constructed(o) ==
    /\ len(o.date_start) = 10
    /\ o.task_queuing = "legacy" => ~o.flag_celery_workers_running

-----------------------------------------------------------------------------
(* FMP.helper_start_date *)

\* a pd.Timestamp, coded as the integer YYYYMMDDHH
Timestamp(d, h) == [t |-> "Timestamp", v |-> d * 100 + h]
\* str(out.date())
StrOfDate(out) == Str(out.v \div 100)

\* a plausible slip: an explicit date_start wins over the store lookup
helper_start_date_explicit_first(date_start, engine, out, str_date) ==
    IF date_start /= NoneV
    THEN date_start
    ELSE IF engine
         THEN IF out /= NoneV /\ str_date THEN StrOfDate(out) ELSE out
         ELSE self.date_start

\* out is what db.get_latest_date_symbol returned (only read with an engine)
helper_start_date(date_start, engine, out, str_date) ==
    IF engine
    THEN IF out /= NoneV /\ str_date THEN StrOfDate(out) ELSE out
    ELSE IF date_start = NoneV THEN self.date_start
         ELSE date_start

-----------------------------------------------------------------------------
(* urls built by helper_data_auto_period *)

NoLimit == -1
UrlPlain == [period |-> "none", limit |-> NoLimit, from |-> NoneV]
UrlFrom(d) == [period |-> "none", limit |-> NoLimit, from |-> d]
UrlPeriod(p, k) == [period |-> p, limit |-> k, from |-> NoneV]

limit_annual(d) == self.current_year - YearOf(d)
\* a plausible slip: the quarters of the current year are left out
limit_quarter_whole_years(d) == 4 * limit_annual(d)
limit_quarter(d) == 4 * limit_annual(d) + self.current_quarter

Event(e, a) == [ev |-> e, arg |-> a, url |-> url]

NoResult == [kind |-> "unset", h |-> 0]
ResNone == [kind |-> "None", h |-> 0]
ResData == [kind |-> "data", h |-> 0]
ResHandle(i) == [kind |-> "handle", h |-> i]

-----------------------------------------------------------------------------
(* FMP.helper_data_auto_period: entry, lines 789-825 *)

\* a plausible slip: the annual url is tried first in auto mode
FirstUrlAnnualFirst(ft, d) ==
    CASE ft = "None" -> IF d = FalseV THEN UrlPlain ELSE UrlFrom(d)
      [] ft = "quarterly" -> UrlPeriod("quarter", limit_quarter(d))
      [] ft \in {"auto", "annually"} -> UrlPeriod("annual", limit_annual(d))

\* the url of the first request, lines 801-823
FirstUrl(ft, d) ==
    CASE ft = "None" -> IF d = FalseV THEN UrlPlain ELSE UrlFrom(d)
      [] ft \in {"auto", "quarterly"} -> UrlPeriod("quarter", limit_quarter(d))
      [] ft = "annually" -> UrlPeriod("annual", limit_annual(d))

HelperCall(ds, ft) ==
    /\ hpc = "idle"
    /\ LET d == helper_start_date(ds, FALSE, NoneV, FALSE) IN
       /\ args' = [date_start |-> d, freq_type |-> ft]
       /\ IF ft /= "None" /\ d.t /= "str"
          THEN \* int(date_start[0:4]) on a non-string
               /\ hpc' = "raised" /\ exc' = "TypeError"
               /\ UNCHANGED <<gpc, url>>
          ELSE IF ft /= "None" /\ d = TextInvalid
          THEN \* int("inva")
               /\ hpc' = "raised" /\ exc' = "ValueError"
               /\ UNCHANGED <<gpc, url>>
          ELSE /\ hpc' = IF ft = "auto" THEN "quarter" ELSE "final"
               /\ gpc' = "call"
               /\ exc' = exc
               /\ url' = FirstUrl(ft, d)
    /\ n' = 0
    /\ UNCHANGED <<self, notFetch, trace, handles, result>>

\* get_json_parsed_data returns data to helper_data_auto_period (lines 813, 832)
GetJsonReturns(data) ==
    /\ gpc' = "idle"
    /\ hpc' = "returned"
    /\ result' = data
    /\ UNCHANGED <<url, exc, n>>

\* get_json_parsed_data raises e into helper_data_auto_period (lines 814-815, 828-832)
GetJsonRaises(e) ==
    IF hpc = "quarter" /\ e = "RequestError"
    THEN /\ url' = UrlPeriod("annual", limit_annual(args.date_start))
         /\ hpc' = "final"
         /\ gpc' = "call"
         /\ n' = 0
         /\ UNCHANGED <<result, exc>>
    ELSE IF hpc = "final" /\ e \in {"RequestError", "HTTPError"}
    THEN /\ result' = ResNone
         /\ hpc' = "returned"
         /\ gpc' = "idle"
         /\ UNCHANGED <<url, exc, n>>
    ELSE /\ hpc' = "raised"
         /\ exc' = e
         /\ gpc' = "idle"
         /\ UNCHANGED <<url, result, n>>

-----------------------------------------------------------------------------
(* FMP.get_json_parsed_data, legacy: lines 732-757 *)

InLegacyLoop == gpc = "call" /\ self.task_queuing = "legacy"

\* a plausible slip: one attempt too many
LoopContinuesOffByOne == n <= self.retries

\* while n < self.retries, line 736
LoopContinues == n < self.retries

\* a plausible slip: no sleep of time_wait_retry after the failure
UrlopenFailsNoRetrySleep ==
    /\ InLegacyLoop
    /\ LoopContinues
    /\ \E e \in ConnectionErrors :
         trace' = trace \o << Event("sleep", "time_wait_query"),
                              Event("urlopen", e) >>
    /\ n' = n + 1
    /\ UNCHANGED <<self, notFetch, hpc, gpc, args, url, handles, result, exc>>

\* one iteration of the loop in which urlopen raises a connection-level error
UrlopenFails ==
    /\ InLegacyLoop
    /\ LoopContinues
    /\ \E e \in ConnectionErrors :
         trace' = trace \o << Event("sleep", "time_wait_query"),
                              Event("urlopen", e),
                              Event("sleep", "time_wait_retry") >>
    /\ n' = n + 1
    /\ UNCHANGED <<self, notFetch, hpc, gpc, args, url, handles, result, exc>>

\* a plausible slip: only the empty payload is checked
IsNoDataEmptyOnly(p) == p = "empty"

\* the checks on the decoded payload, lines 753-757
IsNoData(p) == p = "empty" \/ p = "Error Message"

\* one iteration in which urlopen answers: break, then parse and check
UrlopenSucceeds ==
    /\ InLegacyLoop
    /\ LoopContinues
    /\ \E p \in Payloads :
         IF n >= self.retries
         THEN /\ trace' = trace \o << Event("sleep", "time_wait_query"),
                                      Event("urlopen", p),
                                      Event("raise", "Request error for the URL") >>
              /\ GetJsonRaises("RequestError")
         ELSE IF IsNoData(p)
         THEN /\ trace' = trace \o << Event("sleep", "time_wait_query"),
                                      Event("urlopen", p),
                                      Event("raise", "Data table not found") >>
              /\ GetJsonRaises("RequestError")
         ELSE /\ trace' = trace \o << Event("sleep", "time_wait_query"),
                                      Event("urlopen", p) >>
              /\ GetJsonReturns(ResData)
    /\ UNCHANGED <<self, notFetch, args, handles>>

\* the loop ends with n >= retries: line 747-748
RetriesExhausted ==
    /\ InLegacyLoop
    /\ ~LoopContinues
    /\ n >= self.retries
    /\ trace' = Append(trace, Event("raise", "Request error for the URL"))
    /\ GetJsonRaises("RequestError")
    /\ UNCHANGED <<self, notFetch, args, handles>>

-----------------------------------------------------------------------------
(* FMP.get_json_parsed_data, celery_wait and celery_submit: lines 758-768 *)

Handle(st, fg) == [url |-> url, state |-> st, forgotten |-> fg]

CeleryAssertFails ==
    /\ gpc = "call"
    /\ self.task_queuing \in {"celery_wait", "celery_submit"}
    /\ ~self.flag_celery_workers_running
    /\ GetJsonRaises("AssertionError")
    /\ UNCHANGED <<self, notFetch, args, trace, handles>>

\* submit, wait for the task, forget it, return its result
CeleryWaitReturns ==
    /\ gpc = "call"
    /\ self.task_queuing = "celery_wait"
    /\ self.flag_celery_workers_running
    /\ handles' = Append(handles, Handle("SUCCESS", TRUE))
    /\ trace' = trace \o << Event("submit", "json_request"),
                            Event("wait", "returns"),
                            Event("forget", "") >>
    /\ GetJsonReturns(ResData)
    /\ UNCHANGED <<self, notFetch, args>>

\* submit, wait for the task; wait(propagate=True) re-raises the task's exception
CeleryWaitRaises ==
    /\ gpc = "call"
    /\ self.task_queuing = "celery_wait"
    /\ self.flag_celery_workers_running
    /\ \E e \in CeleryTaskErrors :
         /\ handles' = Append(handles, Handle("FAILURE", FALSE))
         /\ trace' = trace \o << Event("submit", "json_request"),
                                 Event("wait", e) >>
         /\ GetJsonRaises(e)
    /\ UNCHANGED <<self, notFetch, args>>

\* submit and return the AsyncResult at once
CelerySubmit ==
    /\ gpc = "call"
    /\ self.task_queuing = "celery_submit"
    /\ self.flag_celery_workers_running
    /\ handles' = Append(handles, Handle("PENDING", FALSE))
    /\ trace' = Append(trace, Event("submit", "json_request"))
    /\ GetJsonReturns(ResHandle(Len(handles) + 1))
    /\ UNCHANGED <<self, notFetch, args>>

\* the handle returned by the call is collected: the task's state becomes known
HandleCollected ==
    /\ hpc = "returned"
    /\ result.kind = "handle"
    /\ handles[result.h].state = "PENDING"
    /\ \E st \in {"SUCCESS", "FAILURE"} :
         handles' = [handles EXCEPT ![result.h].state = st]
    /\ UNCHANGED <<self, notFetch, hpc, gpc, args, url, n, trace, result, exc>>

-----------------------------------------------------------------------------
(* Properties of the fetch machine *)

TraceAt(u) == {i \in DOMAIN trace : trace[i].url = u}
Urlopens(u) == {i \in TraceAt(u) : trace[i].ev = "urlopen"}
Fails(u) == Cardinality({i \in Urlopens(u) : trace[i].arg \in ConnectionErrors})
Calls(u) == Cardinality(Urlopens(u))
Answered(u, ps) == {i \in Urlopens(u) : trace[i].arg \in ps}
Raised(u, msg) == \E i \in TraceAt(u) : trace[i].ev = "raise" /\ trace[i].arg = msg
UrlsInTrace == {trace[i].url : i \in DOMAIN trace}
\* get_json_parsed_data is still running the request for u
Running(u) == gpc = "call" /\ url = u

C2_NoDataNotRetried ==
    self.task_queuing = "legacy" =>
      \A i \in DOMAIN trace :
        (trace[i].ev = "urlopen" /\ trace[i].arg \in {"empty", "Error Message"}) =>
          /\ i + 1 \in DOMAIN trace
          /\ trace[i + 1].ev = "raise"
          /\ trace[i + 1].arg = "Data table not found"
          /\ trace[i + 1].url = trace[i].url
          /\ \A j \in DOMAIN trace :
               (j > i + 1) => trace[j].url /= trace[i].url
          /\ Cardinality(Answered(trace[i].url, Payloads)) = 1
          /\ ~Running(trace[i].url)

\* an "Error Message" answer arrived after a connection error and was raised
C2_Witness ==
    /\ self.task_queuing = "legacy"
    /\ \E i \in DOMAIN trace :
         /\ trace[i].ev = "urlopen" /\ trace[i].arg = "Error Message"
         /\ Fails(trace[i].url) >= 1
         /\ trace[i + 1].ev = "raise"

Requests(p) ==
    {i \in DOMAIN trace : trace[i].ev \in {"urlopen", "submit"} /\ trace[i].url.period = p}
\* the quarterly request of the call succeeded
QuarterSucceeded ==
    \/ \E i \in Requests("quarter") : trace[i].arg = "data"
    \/ \E i \in DOMAIN trace :
         trace[i].ev = "wait" /\ trace[i].arg = "returns" /\ trace[i].url.period = "quarter"
    \/ \E h \in DOMAIN handles :
         handles[h].url.period = "quarter" /\ handles[h].state = "SUCCESS"

\* C3: in auto mode the quarterly request is submitted before any annual
\* request, and once the quarterly request has succeeded no annual request is
\* submitted.
C3_QuarterlyFirst ==
    (hpc /= "idle" /\ args.freq_type = "auto") =>
      /\ \A i \in Requests("annual") : \E j \in Requests("quarter") : j < i
      /\ QuarterSucceeded => (Requests("annual") = {} /\ url.period /= "annual")

\* auto mode fell back: an annual request follows the failed quarterly one
C3_Witness ==
    /\ args.freq_type = "auto"
    /\ Requests("annual") /= {}
    /\ Requests("quarter") /= {}

\* the quarterly job of the call ended in a request failure
QuarterFailed ==
    \/ \E i \in DOMAIN trace :
         /\ trace[i].url.period = "quarter"
         /\ \/ trace[i].ev = "raise"
            \/ trace[i].ev = "wait" /\ trace[i].arg = "RequestError"
    \/ \E h \in DOMAIN handles :
         handles[h].url.period = "quarter" /\ handles[h].state = "FAILURE"
            /\ self.task_queuing = "celery_submit"
\* get_json_parsed_data was called with the annual url of the call
AnnualJobSubmitted ==
    \E i \in DOMAIN trace :
       trace[i].url = UrlPeriod("annual", self.current_year - YearOf(args.date_start))

\* C4: in auto mode, under each strategy, once the quarterly job has failed
\* and the call is over, an annual job with limit = years_elapsed was submitted.
C4_AnnualFallback ==
    (hpc \in {"returned", "raised"} /\ args.freq_type = "auto" /\ QuarterFailed) =>
      AnnualJobSubmitted

-----------------------------------------------------------------------------
(* Values handled by process_celery_results *)

\* Python values as records: k is the type, s a string value, cols the keys of
\* a dict or the columns of the rows of a list / dataframe, dates its dates
\* cells: the (column, date) pairs that hold a value
Val(k, str, cols, dates) ==
    [k |-> k, s |-> str, cols |-> cols, dates |-> dates, cells |-> cols \X dates]
PyNone == Val("None", "", {}, {})
RawFailure == Val("str", "FAILURE", {}, {})
RawEmpty == Val("list", "", {}, {})
\* a price payload: {"symbol": ..., "historical": [rows with date, close]}
PricesObj == Val("dict", "", {"symbol", "historical"}, {1, 2})
\* a list of rows of a statement, and of an economic indicator
StmtRows == Val("list", "", {"date", "symbol", "value"}, {1, 2})
EconRows == Val("list", "", {"date", "value"}, {1, 2})
\* rows of an indicator published on other dates
EconRowsLate == Val("list", "", {"date", "value"}, {2, 3})
DataFrame(cols, dates) == Val("df", "", cols, dates)
RequestErrorRaised == Val("raise", "RequestError", {}, {})

mandatory_sheets_default == <<"Prices", "Meta data">>
key_ei_us == "FMP-EI-US"

SymbolNames == <<"A", "B", "C", "D">>
IndicatorNames == <<"federalFunds", "inflationRate">>

\* what cc.celery_process_results can return for a handle of the sheet
RawOutcomes(sheet) ==
    {RawFailure, PyNone, RawEmpty, PricesObj}
       \cup (IF sheet = key_ei_us THEN {EconRows, EconRowsLate} ELSE {StmtRows})

Range(q) == {q[i] : i \in DOMAIN q}

\* the batches built by celery_submit_several_jobs_all_data (series -> symbol ->
\* handle, the same symbols under every series) and by download_macroeconomic_data
SymbolBatch(sheets, ns) ==
    [sheets |-> sheets, keys |-> [sh \in Range(sheets) |-> SubSeq(SymbolNames, 1, ns)]]
MacroBatch(sheets, ns) ==
    [sheets |-> Append(sheets, key_ei_us),
     keys |-> [sh \in Range(sheets) \cup {key_ei_us} |->
                 IF sh = key_ei_us THEN IndicatorNames ELSE SubSeq(SymbolNames, 1, ns)]]
Batches ==
    {SymbolBatch(sh, ns) : sh \in {<<"Prices">>, <<"Prices", "Income">>,
                                   <<"Income", "Prices">>,
                                   <<"Meta data", "Income">>},
                           ns \in 1..MaxSymbols}
    \cup {MacroBatch(sh, ns) : sh \in {<< >>, <<"Prices">>}, ns \in 1..MaxSymbols}

-----------------------------------------------------------------------------
(* FMP.helper_process_dict *)

helper_process_dict(data, sheet, drop_symbol_col) ==
    IF data = PyNone \/ data.cols = {}
    THEN PyNone
    ELSE IF sheet = "Prices"
    THEN IF data.k = "dict" /\ "historical" \in data.cols
         THEN DataFrame({"close"}, data.dates)
         ELSE RequestErrorRaised
    ELSE IF sheet = "Meta data"
    THEN IF data.k = "list"
         THEN Val("dict", "", data.cols, {})
         ELSE RequestErrorRaised
    ELSE IF "date" \notin data.cols
         THEN RequestErrorRaised
         ELSE IF drop_symbol_col
              THEN IF "symbol" \in data.cols
                   THEN DataFrame(data.cols \ {"date", "symbol"}, data.dates)
                   ELSE RequestErrorRaised
              ELSE DataFrame(data.cols \ {"date"}, data.dates)

-----------------------------------------------------------------------------
(* FMP.process_celery_results *)

\* entry, lines 359-368
ProcessCall(d, mandatory, drop) ==
    /\ cpc = "idle"
    /\ cargs' = [d |-> d,
                 mandatory_sheets |->
                     IF mandatory = "True" THEN Range(mandatory_sheets_default)
                     ELSE IF mandatory = "None" THEN {}
                     ELSE {"Prices"},
                 drop_symbol_col |-> drop]
    /\ cpc' = "collect"
    /\ pos' = [s |-> 1, k |-> 1]
    /\ UNCHANGED <<self, notCollect, resolved, dp, symbols_to_remove, pn, summary, cexc,
                   collected>>

\* a plausible slip: dp[sheet] = {} inside the loop over the symbols
PutAfterReset(f, sh, k, v) ==
    [x \in DOMAIN f \cup {sh} |-> IF x = sh THEN [y \in {k} |-> v] ELSE f[x]]

\* f with f[sh][k] set to v, the entries created when missing
Put(f, sh, k, v) ==
    [x \in DOMAIN f \cup {sh} |->
        IF x = sh
        THEN [y \in (IF sh \in DOMAIN f THEN DOMAIN f[sh] ELSE {}) \cup {k} |->
                 IF y = k THEN v ELSE f[sh][y]]
        ELSE f[x]]

\* a plausible slip: every failure removes the symbol
IsMandatoryAlways(sheet) == TRUE
\* a plausible slip: no failure removes the symbol
IsMandatoryNever(sheet) == FALSE

\* if sheet in mandatory_sheets, line 402
IsMandatory(sheet) == sheet \in cargs.mandatory_sheets

\* one iteration of the loops of lines 382-408: resolve and process one handle
CollectHandle ==
    /\ cpc = "collect"
    /\ LET sheet == cargs.d.sheets[pos.s]
           keys == cargs.d.keys[sheet]
           symbol == keys[pos.k]
           n0 == IF pos.k = 1 THEN 0 ELSE pn
       IN \E raw \in RawOutcomes(sheet) :
            LET out == IF raw = RawFailure
                       THEN RequestErrorRaised
                       ELSE helper_process_dict(raw, sheet, cargs.drop_symbol_col)
            IN /\ resolved' = Put(resolved, sheet, symbol, raw)
               /\ collected' = Append(collected, <<sheet, symbol>>)
               /\ IF out = RequestErrorRaised
                  THEN /\ dp' = Put(dp, sheet, symbol, PyNone)
                       /\ symbols_to_remove' =
                            IF IsMandatory(sheet)
                            THEN Append(symbols_to_remove, symbol)
                            ELSE symbols_to_remove
                       /\ pn' = n0 + 1
                  ELSE /\ dp' = Put(dp, sheet, symbol, out)
                       /\ pn' = n0
                       /\ UNCHANGED symbols_to_remove
               /\ IF pos.k < Len(keys)
                  THEN /\ pos' = [pos EXCEPT !.k = pos.k + 1]
                       /\ cpc' = cpc
                  ELSE IF pos.s < Len(cargs.d.sheets)
                  THEN /\ pos' = [s |-> pos.s + 1, k |-> 1]
                       /\ cpc' = cpc
                  ELSE /\ pos' = pos
                       /\ cpc' = "combine"
    /\ UNCHANGED <<self, notCollect, cargs, summary, cexc>>

\* df.join(df_tmp, how="outer") of the renamed frames, in the order of the sequence
\* df_tmp.rename(columns={"value": f"{self.key_ei_us}_{name}"}), for one column
Renamed(c, name) == IF c = "value" THEN key_ei_us \o "_" \o name ELSE c

\* a plausible slip: how="inner", only the dates all indicators share are kept
RECURSIVE JoinAllInner(_, _, _)
JoinAllInner(names, frames, df) ==
    IF names = << >>
    THEN df
    ELSE LET name == Head(names)
             t == frames[name]
             dates == df.dates \cap t.dates
             cells == {c \in df.cells \cup {<<Renamed(x[1], name), x[2]>> : x \in t.cells} :
                          c[2] \in dates}
         IN JoinAllInner(Tail(names), frames,
               [DataFrame(df.cols \cup {Renamed(c, name) : c \in t.cols}, dates)
                   EXCEPT !.cells = cells])

RECURSIVE JoinAll(_, _, _)
JoinAll(names, frames, df) ==
    IF names = << >>
    THEN df
    ELSE LET name == Head(names)
             t == frames[name]
         IN JoinAll(Tail(names), frames,
               [DataFrame(df.cols \cup {Renamed(c, name) : c \in t.cols},
                          df.dates \cup t.dates)
                   EXCEPT !.cells = df.cells \cup
                                    {<<Renamed(x[1], name), x[2]>> : x \in t.cells}])

\* step 1.2, lines 410-417: combine the sheets of the composite series
CombineSheets ==
    /\ cpc = "combine"
    /\ IF key_ei_us \in DOMAIN dp
       THEN IF \E name \in DOMAIN dp[key_ei_us] : dp[key_ei_us][name].k /= "df"
            THEN \* df_tmp.rename on None
                 /\ cpc' = "raised"
                 /\ cexc' = "AttributeError"
                 /\ dp' = dp
            ELSE /\ dp' = [dp EXCEPT ![key_ei_us] =
                              [c \in {"combined"} |->
                                  JoinAll(cargs.d.keys[key_ei_us], dp[key_ei_us],
                                          DataFrame({}, {}))]]
                 /\ cpc' = "post"
                 /\ cexc' = cexc
       ELSE /\ cpc' = "post"
            /\ UNCHANGED <<dp, cexc>>
    /\ UNCHANGED <<self, notCollect, cargs, pos, resolved, symbols_to_remove, pn, summary,
                   collected>>

\* a plausible slip: the symbols are removed from the mandatory sheets only
SheetsToPruneMandatoryOnly == {sh \in DOMAIN dp : IsMandatory(sh)}

\* for sheet in dp, line 423
SheetsToPrune == DOMAIN dp

\* step 2, lines 419-430: remove the recorded symbols, print the summary, return
PostProcess ==
    /\ cpc = "post"
    /\ LET removed == Range(symbols_to_remove) IN
       IF \E symbol \in removed, sheet \in SheetsToPrune : symbol \notin DOMAIN dp[sheet]
       THEN \* del dp[sheet][symbol] on a missing key
            /\ cpc' = "raised"
            /\ cexc' = "KeyError"
            /\ UNCHANGED <<dp, summary>>
       ELSE /\ dp' = [sheet \in DOMAIN dp |->
                        IF sheet \in SheetsToPrune
                        THEN [symbol \in DOMAIN dp[sheet] \ removed |-> dp[sheet][symbol]]
                        ELSE dp[sheet]]
            /\ summary' = [processed_symbols |-> pn,
                           processed_sheets |-> Len(cargs.d.sheets),
                           removed_symbols |-> Cardinality(removed),
                           remaining_symbols |-> pn - Cardinality(removed)]
            /\ cpc' = "returned"
            /\ cexc' = cexc
    /\ UNCHANGED <<self, notCollect, cargs, pos, resolved, symbols_to_remove, pn,
                   collected>>

NoSummary ==
    [processed_symbols |-> 0, processed_sheets |-> 0,
     removed_symbols |-> 0, remaining_symbols |-> 0]

-----------------------------------------------------------------------------
(* Worker lifecycle: FMP.__init__ (lines 163-175), celery_workers_start,     *)
(* celery_workers_stop, celery_workers_running                               *)

\* cc.celery_workers_running(worker_processes)
WorkersRunning(wp, gs) == wp \in gs

\* what cc.celery_workers_start can leave running: the new group next to the
\* ones already running, or the new group alone
StartOutcomes(id) == {groups \cup {id}, {id}}

\* FMP(..., start_celery=sc)
Construct(sc) ==
    /\ wpc = "new"
    /\ wpc' = "ready"
    /\ IF self.task_queuing \in {"celery_wait", "celery_submit"}
       THEN IF sc /\ nstarts < MaxStarts
            THEN \E gs \in StartOutcomes(nstarts + 1) :
                   /\ groups' = gs
                   /\ worker_processes' = nstarts + 1
                   /\ nstarts' = nstarts + 1
                   /\ self' = [self EXCEPT !.flag_celery_workers_running =
                                  WorkersRunning(nstarts + 1, gs)]
            ELSE /\ self' = [self EXCEPT !.flag_celery_workers_running =
                                WorkersRunning(worker_processes, groups)]
                 /\ UNCHANGED <<groups, worker_processes, nstarts>>
       ELSE UNCHANGED <<self, groups, worker_processes, nstarts>>
    /\ UNCHANGED <<notWorkers, submissions>>

\* FMP.celery_workers_start
celery_workers_start ==
    /\ wpc = "ready"
    /\ nstarts < MaxStarts
    /\ IF self.task_queuing /= "legacy"
       THEN \E gs \in StartOutcomes(nstarts + 1) :
              /\ groups' = gs
              /\ worker_processes' = nstarts + 1
              /\ nstarts' = nstarts + 1
       ELSE UNCHANGED <<groups, worker_processes, nstarts>>
    /\ UNCHANGED <<self, notWorkers, wpc, submissions>>

\* FMP.celery_workers_stop
celery_workers_stop ==
    /\ wpc = "ready"
    /\ IF self.task_queuing /= "legacy"
       THEN groups' = groups \ {worker_processes}
       ELSE UNCHANGED groups
    /\ UNCHANGED <<self, notWorkers, wpc, worker_processes, nstarts, submissions>>

\* get_json_parsed_data under celery_wait or celery_submit: the assertion on
\* the flag, then the submission (lines 758-768)
QueueRequest ==
    /\ wpc = "ready"
    /\ self.task_queuing \in {"celery_wait", "celery_submit"}
    /\ submissions' = submissions \cup
          {[submitted |-> self.flag_celery_workers_running,
            flag |-> self.flag_celery_workers_running,
            running |-> groups /= {}]}
    /\ UNCHANGED <<self, notWorkers, wpc, worker_processes, groups, nstarts>>

\* the workers of an object that the other machines take as constructed
IdleWorkers ==
    /\ wpc = "ready"
    /\ worker_processes = IF self.flag_celery_workers_running THEN 1 ELSE 0
    /\ groups = IF self.flag_celery_workers_running THEN {1} ELSE {}
    /\ nstarts = IF self.flag_celery_workers_running THEN 1 ELSE 0
    /\ submissions = {}

\* sheets=None of get_all_symbol_data
NoSheets == <<"None">>

\* no call of celery_submit_several_jobs_all_data has been made
IdleSubmit ==
    /\ spc = "idle"
    /\ sargs = [symbols |-> << >>, date_start |-> NoneV, freq_type |-> "auto",
                prices_only |-> FALSE, sheets |-> NoSheets,
                add_prices_metadata_sheets |-> TRUE]
    /\ si = 1
    /\ sd = << >>
    /\ submitted = << >>
    /\ sbatch = << >>
    /\ sexc = "none"

\* a result of count_keys_nested: an integer or a dictionary
NoCount == [t |-> "none", n |-> 0, d |-> << >>]

\* no call of count_keys_nested has been made
IdleCount ==
    /\ kpc = "idle"
    /\ kd = << >>
    /\ klevel = 0
    /\ kres = NoCount

\* no call of get_all_symbol_data has been made
IdleFanout ==
    /\ fpc = "idle"
    /\ fargs = [date_start |-> NoneV, freq_type |-> "auto", prices_only |-> FALSE,
                sheets |-> NoSheets, add_prices_metadata_sheets |-> TRUE,
                engine |-> FALSE, raise_exceptions |-> TRUE]
    /\ fsheets = << >>
    /\ fi = 1
    /\ fdate = NoneV
    /\ jobs = << >>
    /\ fdata = << >>
    /\ fexc = "none"

IdleCollect ==
    /\ cpc = "idle"
    /\ cargs = [d |-> SymbolBatch(<<"Prices">>, 1), mandatory_sheets |-> {},
                drop_symbol_col |-> TRUE]
    /\ pos = [s |-> 1, k |-> 1]
    /\ resolved = << >>
    /\ dp = << >>
    /\ symbols_to_remove = << >>
    /\ pn = 0
    /\ summary = NoSummary
    /\ cexc = "none"
    /\ collected = << >>

IdleFetch ==
    /\ hpc = "idle"
    /\ gpc = "idle"
    /\ args = [date_start |-> NoneV, freq_type |-> "None"]
    /\ url = UrlPlain
    /\ n = 0
    /\ trace = << >>
    /\ handles = << >>
    /\ result = NoResult
    /\ exc = "none"

InitWorkers ==
    /\ self \in {o \in FMPObjects :
                    /\ len(o.date_start) = 10
                    /\ ~o.flag_celery_workers_running
                    /\ o.current_year = DefaultYear
                    /\ o.current_quarter = 0}
    /\ wpc = "new"
    /\ worker_processes = 0
    /\ groups = {}
    /\ nstarts = 0
    /\ submissions = {}
    /\ IdleFetch
    /\ IdleCollect
    /\ IdleFanout
    /\ IdleSubmit
    /\ IdleCount

NextWorkers ==
    \/ \E sc \in BOOLEAN : Construct(sc)
    \/ celery_workers_start
    \/ celery_workers_stop
    \/ QueueRequest

SpecWorkers == InitWorkers /\ [][NextWorkers]_vars

\* C21: the worker slots started by this client and not yet stopped never
\* exceed the configured celery_worker_concurrency.
C21_ConcurrencyCeiling ==
    Cardinality(groups) * celery_worker_concurrency <= celery_worker_concurrency

\* C29: under the queue strategies the flag that guards the submission equals
\* the real running state of the workers at the moment of submission, so a job
\* is submitted only while workers are running.
C29_FlagIsRunningState ==
    \A s \in submissions :
       /\ s.flag = s.running
       /\ s.submitted => s.running

\* the client of download_symbol_data: celery_submit with running workers
InitCollect ==
    /\ self \in {o \in FMPObjects :
                    /\ Constructed(o)
                    /\ o.task_queuing = "celery_submit"
                    /\ o.flag_celery_workers_running
                    /\ o.retries = MaxRetries
                    /\ ~o.fmp_free_account
                    /\ o.current_year = DefaultYear
                    /\ o.current_quarter = 0}
    /\ IdleFetch
    /\ IdleCollect
    /\ IdleFanout
    /\ IdleWorkers
    /\ IdleSubmit
    /\ IdleCount

NextCollect ==
    \/ \E d \in Batches, mandatory \in {"True", "None", "list"}, drop \in BOOLEAN :
          ProcessCall(d, mandatory, drop)
    \/ CollectHandle
    \/ CombineSheets
    \/ PostProcess

SpecCollect == InitCollect /\ [][NextCollect]_vars

-----------------------------------------------------------------------------
(* Properties of the collect machine *)

BatchSheets == Range(cargs.d.sheets)
BatchKeys(sheet) == Range(cargs.d.keys[sheet])
\* the handle of (sheet, symbol) resolved to the failure marker
JobFailed(sheet, symbol) ==
    /\ sheet \in DOMAIN resolved
    /\ symbol \in DOMAIN resolved[sheet]
    /\ resolved[sheet][symbol] = RawFailure
FailedOnMandatory(symbol) ==
    \E sheet \in BatchSheets : sheet \in cargs.mandatory_sheets /\ JobFailed(sheet, symbol)

\* C5: in the returned dataset, a symbol whose handle for a mandatory series
\* resolved to a failure is absent from every series, the non-mandatory series
\* in which its job succeeded included.
C5_MandatoryPruning ==
    cpc = "returned" =>
      \A sheet \in BatchSheets : \A symbol \in BatchKeys(sheet) :
         FailedOnMandatory(symbol) => \A sh \in DOMAIN dp : symbol \notin DOMAIN dp[sh]

\* "A" failed on the mandatory "Prices" and succeeded on "Income"; "B" is kept
C5_Witness ==
    /\ cpc = "returned"
    /\ cargs.d.sheets = <<"Prices", "Income">>
    /\ "Prices" \in cargs.mandatory_sheets
    /\ JobFailed("Prices", "A")
    /\ resolved["Income"]["A"] = StmtRows
    /\ "B" \in DOMAIN dp["Income"] /\ "B" \in DOMAIN dp["Prices"]
    /\ "A" \notin DOMAIN dp["Income"]

\* C6 as stated: in the returned dataset the symbols are the same under every
\* series key.
C6_SameSymbolsEverySeries ==
    cpc = "returned" =>
      \A s1 \in DOMAIN dp, s2 \in DOMAIN dp : DOMAIN dp[s1] = DOMAIN dp[s2]

\* C6 amended: the symbols are the same under every series key other than the
\* composite key "FMP-EI-US", which holds the single entry "combined".
C6_SameSymbolsSymbolSeries ==
    cpc = "returned" =>
      /\ \A s1 \in DOMAIN dp \ {key_ei_us}, s2 \in DOMAIN dp \ {key_ei_us} :
            DOMAIN dp[s1] = DOMAIN dp[s2]
      /\ key_ei_us \in DOMAIN dp => DOMAIN dp[key_ei_us] = {"combined"}

\* a dataset of two series from which a symbol was pruned and one was kept
C6_Witness ==
    /\ cpc = "returned"
    /\ cargs.d.sheets = <<"Prices", "Income">>
    /\ Len(symbols_to_remove) >= 1
    /\ DOMAIN dp["Prices"] = {"B"}
    /\ DOMAIN dp["Income"] = {"B"}

\* the handles of the batch, as (sheet, symbol) pairs
BatchHandles == UNION {{<<sh, k>> : k \in BatchKeys(sh)} : sh \in BatchSheets}
\* the (sheet, symbol) pairs that have a value in a nested dictionary
Entries(f) == UNION {{<<sh, k>> : k \in DOMAIN f[sh]} : sh \in DOMAIN f}

\* C14: process_celery_results resolves each handle of the batch exactly once
\* (N calls of the collection mechanism for N handles, none collected twice,
\* none skipped) and records one outcome per handle, whatever the order of the
\* series and symbols in the batch.
C14_EachHandleOnce ==
    /\ \A i \in DOMAIN collected, j \in DOMAIN collected :
          collected[i] = collected[j] => i = j
    /\ Range(collected) \subseteq BatchHandles
    /\ Entries(resolved) = Range(collected)
    /\ cpc = "collect" => Entries(dp) = Range(collected)
    /\ cpc \in {"combine", "returned", "raised"} =>
          /\ Len(collected) = Cardinality(BatchHandles)
          /\ Range(collected) = BatchHandles
    /\ cpc = "combine" => Entries(dp) = BatchHandles

\* a batch of two series and two symbols was collected with four calls
C14_Witness ==
    /\ cpc = "returned"
    /\ cargs.d.sheets = <<"Income", "Prices">>
    /\ collected = << <<"Income", "A">>, <<"Income", "B">>,
                      <<"Prices", "A">>, <<"Prices", "B">> >>

\* C22: when every indicator of the composite series "FMP-EI-US" resolved to a
\* frame, the series is replaced by one frame "combined" whose columns are
\* exactly "FMP-EI-US_<indicator>" for each indicator and whose rows are the
\* union of the dates of all indicators, a cell being empty exactly where the
\* indicator lacks that date.
C22_CompositeOuterJoin ==
    (cpc \in {"post", "returned"} /\ key_ei_us \in BatchSheets) =>
       LET names == BatchKeys(key_ei_us)
           f == dp[key_ei_us]["combined"]
       IN /\ DOMAIN dp[key_ei_us] = {"combined"}
          /\ f.k = "df"
          /\ f.cols = {key_ei_us \o "_" \o name : name \in names}
          /\ f.dates = UNION {resolved[key_ei_us][name].dates : name \in names}
          /\ \A name \in names : \A d \in f.dates :
                <<key_ei_us \o "_" \o name, d>> \in f.cells
                   <=> d \in resolved[key_ei_us][name].dates

\* two indicators published on different dates were joined on three dates
C22_Witness ==
    /\ cpc = "returned"
    /\ key_ei_us \in BatchSheets
    /\ resolved[key_ei_us]["federalFunds"] = EconRows
    /\ resolved[key_ei_us]["inflationRate"] = EconRowsLate
    /\ dp[key_ei_us]["combined"].cols = {"FMP-EI-US_federalFunds", "FMP-EI-US_inflationRate"}
    /\ dp[key_ei_us]["combined"].dates = {1, 2, 3}
    /\ <<"FMP-EI-US_federalFunds", 3>> \notin dp[key_ei_us]["combined"].cells

\* the symbols of the batch
BatchSymbols == UNION {BatchKeys(sheet) : sheet \in BatchSheets}

\* C23: the summary of every returned batch reports processed symbols = the
\* number of symbols in the batch, processed series = the number of series,
\* removed symbols = the number of distinct symbols removed, and remaining
\* symbols = processed - removed, never negative.
C23_SummaryCounts ==
    cpc = "returned" =>
       /\ summary.processed_symbols = Cardinality(BatchSymbols)
       /\ summary.processed_sheets = Cardinality(BatchSheets)
       /\ summary.removed_symbols = Cardinality(Range(symbols_to_remove))
       /\ summary.remaining_symbols
             = Cardinality(BatchSymbols) - Cardinality(Range(symbols_to_remove))
       /\ summary.remaining_symbols >= 0

AnyJobFailed == \E sheet \in DOMAIN resolved : \E symbol \in DOMAIN resolved[sheet] :
                   JobFailed(sheet, symbol)

\* C7: process_celery_results does not raise when handles of the batch
\* resolved to failure: the collection returns a dataset.
C7_CollectNeverRaises == AnyJobFailed => cpc /= "raised"

\* C8: every symbol that remains in the returned dataset has a value other
\* than None under every mandatory series of the batch.
C8_MandatoryNeverMissing ==
    cpc = "returned" =>
      \A sheet \in DOMAIN dp :
         sheet \in cargs.mandatory_sheets =>
            \A symbol \in DOMAIN dp[sheet] : dp[sheet][symbol] /= PyNone

\* what process_celery_results stores for one resolved handle taken alone
CellValue(sheet, symbol) ==
    LET raw == resolved[sheet][symbol] IN
    IF raw = RawFailure \/ raw = PyNone \/ raw = RawEmpty
    THEN PyNone
    ELSE IF raw = PricesObj
    THEN IF sheet = "Prices" THEN DataFrame({"close"}, PricesObj.dates) ELSE PyNone
    ELSE IF sheet = "Prices" THEN PyNone
    ELSE IF sheet = "Meta data" THEN Val("dict", "", raw.cols, {})
    ELSE IF cargs.drop_symbol_col
    THEN IF raw = StmtRows THEN DataFrame({"value"}, raw.dates) ELSE PyNone
    ELSE DataFrame(raw.cols \ {"date"}, raw.dates)

\* a mandatory job of the symbol failed or resolved to inconsistent data
ErroredOnMandatory(symbol) ==
    \E sh \in BatchSheets :
       /\ sh \in cargs.mandatory_sheets
       /\ sh \in DOMAIN resolved
       /\ symbol \in DOMAIN resolved[sh]
       /\ \/ resolved[sh][symbol] = RawFailure
          \/ helper_process_dict(resolved[sh][symbol], sh, cargs.drop_symbol_col)
                = RequestErrorRaised

\* C9: a failure on a non-mandatory series stores None for that cell only:
\* when none of the symbol's mandatory jobs failed, the symbol is present in
\* every series of the returned dataset that held it, with its other values
\* as its handles resolved them.
C9_NonMandatoryFailureIsLocal ==
    cpc = "returned" =>
      \A sheet \in BatchSheets : \A symbol \in BatchKeys(sheet) :
         (/\ sheet \notin cargs.mandatory_sheets
          /\ JobFailed(sheet, symbol)
          /\ ~ErroredOnMandatory(symbol)) =>
            /\ \A sh \in BatchSheets :
                 symbol \in BatchKeys(sh) =>
                    /\ symbol \in DOMAIN dp[sh]
                    /\ dp[sh][symbol] = CellValue(sh, symbol)
            /\ dp[sheet][symbol] = PyNone

\* "A" failed on the non-mandatory "Income" only and keeps its prices
C9_Witness ==
    /\ cpc = "returned"
    /\ cargs.d.sheets = <<"Prices", "Income">>
    /\ cargs.mandatory_sheets = {"Prices"}
    /\ JobFailed("Income", "A")
    /\ resolved["Prices"]["A"] = PricesObj
    /\ "A" \in DOMAIN dp["Prices"] /\ dp["Prices"]["A"].k = "df"
    /\ dp["Income"]["A"] = PyNone

-----------------------------------------------------------------------------
(* FMP.get_all_symbol_data *)

PaidSheets == <<"Income", "Balance", "Cash flow", "Financial ratios",
                "Enterprise value", "FMP rating", "Key metrics">>
\* list(self.series_symbols.keys()), lines 136-151; the paid series are cut
\* to the first MaxPaidSheets of them
\* a plausible slip: the catalogue does not depend on the account
series_symbols_paid == <<"Prices", "Meta data">> \o SubSeq(PaidSheets, 1, MaxPaidSheets)

series_symbols ==
    IF self.fmp_free_account
    THEN <<"Prices", "Meta data">>
    ELSE <<"Prices", "Meta data">> \o SubSeq(PaidSheets, 1, MaxPaidSheets)

\* a plausible slip: the validation accepts every list
is_sublist_always(a, b) == TRUE

\* lists.is_sublist(a, b)
is_sublist(a, b) == Range(a) \subseteq Range(b)

\* a plausible slip: the sheets to add are dropped
ListUnionFirstOnly(a, b) == a

\* lists.union(a, b): the elements of a, then those of b that a lacks
RECURSIVE ListUnion(_, _)
ListUnion(a, b) ==
    IF b = << >> THEN a
    ELSE ListUnion(IF Head(b) \in Range(a) THEN a ELSE Append(a, Head(b)), Tail(b))

\* step 0 of get_all_symbol_data, lines 961-978
FanoutCall(a) ==
    /\ fpc = "idle"
    /\ fargs' = a
    /\ fdate' = a.date_start
    /\ fi' = 1
    /\ LET s0 == IF a.sheets = NoSheets THEN series_symbols ELSE a.sheets
           s1 == IF a.add_prices_metadata_sheets
                 THEN ListUnion(s0, <<"Prices", "Meta data">>) ELSE s0
           s2 == IF a.prices_only THEN <<"Prices">> ELSE s1
       IN IF a.sheets /= NoSheets /\ ~is_sublist(a.sheets, series_symbols)
          THEN /\ fpc' = "raised"
               /\ fexc' = "AssertionError"
               /\ fsheets' = fsheets
          ELSE /\ fpc' = "loop"
               /\ fexc' = fexc
               /\ fsheets' = s2
    /\ UNCHANGED <<self, notFanout, jobs, fdata>>

\* the start date and freq_type with which the getter of the sheet calls
\* helper_data_auto_period, or the exception it raises before:
\* get_prices_history_daily, get_stock_info, get_income_statements, ...,
\* get_fmp_company_rating
\* a plausible slip: the getters do not look at fmp_free_account
GetterRequestUnchecked(sheet, date_start, freq_type) ==
    LET d == helper_start_date(date_start, FALSE, NoneV, FALSE) IN
    IF sheet = "Prices"
    THEN [raises |-> "none", start |-> d, freq |-> "None"]
    ELSE IF sheet = "Meta data"
    THEN [raises |-> "none", start |-> FalseV, freq |-> "None"]
    ELSE IF sheet \notin Range(PaidSheets)
    THEN [raises |-> "ValueError", start |-> d, freq |-> freq_type]
    ELSE [raises |-> IF d.t = "str" THEN "none" ELSE "TypeError",
          start |-> d, freq |-> IF sheet = "FMP rating" THEN "None" ELSE freq_type]

GetterRequest(sheet, date_start, freq_type) ==
    LET d == helper_start_date(date_start, FALSE, NoneV, FALSE) IN
    IF sheet = "Prices"
    THEN [raises |-> "none", start |-> d, freq |-> "None"]
    ELSE IF sheet = "Meta data"
    THEN [raises |-> "none", start |-> FalseV, freq |-> "None"]
    ELSE IF sheet \notin Range(PaidSheets)
    THEN \* the else branch of lines 1047-1050
         [raises |-> "ValueError", start |-> d, freq |-> freq_type]
    ELSE IF self.fmp_free_account
    THEN [raises |-> "ValueError", start |-> d, freq |-> freq_type]
    ELSE IF sheet = "FMP rating"
    THEN [raises |-> IF d.t = "str" THEN "none" ELSE "TypeError",
          start |-> d, freq |-> "None"]
    ELSE [raises |-> IF d.t = "str" THEN "none" ELSE "TypeError",
          start |-> d, freq |-> freq_type]

\* what the getter of a sheet ends with, once its request is made
JobOutcomes ==
    IF self.task_queuing = "celery_submit"
    THEN IF self.flag_celery_workers_running THEN {"handle"} ELSE {"AssertionError"}
    ELSE IF self.task_queuing = "celery_wait" /\ ~self.flag_celery_workers_running
    THEN {"AssertionError"}
    ELSE {"data", "None", "RequestError"}

\* what db.get_latest_date_symbol can return for a (sheet, symbol)
Lookups == {NoneV, Timestamp(DateString(DefaultYear + MaxYearSpan, 6, 30), 12)}

\* one iteration of the loop of lines 981-1056
SheetStep ==
    /\ fpc = "loop"
    /\ LET sheet == fsheets[fi] IN
       \E out \in IF fargs.engine /\ sheet /= "Meta data" THEN Lookups ELSE {NoneV} :
       \E o \in JobOutcomes :
         LET ds == IF sheet /= "Meta data"
                   THEN helper_start_date(fdate, fargs.engine, out, TRUE)
                   ELSE fdate
             rq == GetterRequest(sheet, ds, fargs.freq_type)
             done == fi = Len(fsheets)
         IN /\ fdate' = ds
            /\ IF rq.raises /= "none"
               THEN /\ fpc' = "raised" /\ fexc' = rq.raises
                    /\ UNCHANGED <<jobs, fdata, fi>>
               ELSE /\ jobs' = Append(jobs, [sheet |-> sheet, lookup |-> out,
                                             start |-> rq.start, freq |-> rq.freq,
                                             out |-> o])
                    /\ IF o = "AssertionError" \/ (o = "RequestError" /\ fargs.raise_exceptions)
                       THEN /\ fpc' = "raised" /\ fexc' = o
                            /\ UNCHANGED <<fdata, fi>>
                       ELSE /\ fdata' = Append(fdata,
                                   [sheet |-> sheet,
                                    value |-> IF o = "RequestError" THEN "None" ELSE o])
                            /\ fexc' = fexc
                            /\ fi' = IF done THEN fi ELSE fi + 1
                            /\ fpc' = IF done THEN "returned" ELSE "loop"
    /\ UNCHANGED <<self, notFanout, fargs, fsheets>>

\* get_us_economic_indicators up to its request, lines 2053-2074
IndicatorRequest(date_start) ==
    LET d == helper_start_date(date_start, FALSE, NoneV, FALSE) IN
    [raises |-> IF self.fmp_free_account THEN "ValueError" ELSE "none",
     start |-> d, freq |-> "None"]

\* get_all_us_economic_indicators(date_start), lines 1084-1118
IndicatorsCall(ds) ==
    /\ fpc = "idle"
    /\ fargs' = [fargs EXCEPT !.date_start = ds]
    /\ fdate' = ds
    /\ fsheets' = IndicatorNames
    /\ fi' = 1
    /\ fpc' = "indicators"
    /\ UNCHANGED <<self, notFanout, jobs, fdata, fexc>>

\* one iteration of the loop of lines 1119-1123, with the tail of
\* get_us_economic_indicators, lines 2076-2085
IndicatorStep ==
    /\ fpc = "indicators"
    /\ \E o \in JobOutcomes :
         LET name == fsheets[fi]
             rq == IndicatorRequest(fdate)
             done == fi = Len(fsheets)
         IN IF rq.raises /= "none"
            THEN /\ fpc' = "raised" /\ fexc' = rq.raises
                 /\ UNCHANGED <<jobs, fdata, fi>>
            ELSE /\ jobs' = Append(jobs, [sheet |-> name, lookup |-> NoneV,
                                          start |-> rq.start, freq |-> rq.freq,
                                          out |-> o])
                 /\ IF o \in {"AssertionError", "RequestError", "None"}
                    THEN \* None: helper_process_dict returns None and
                         \* df.rename raises AttributeError
                         /\ fpc' = "raised"
                         /\ fexc' = IF o = "None" THEN "AttributeError" ELSE o
                         /\ UNCHANGED <<fdata, fi>>
                    ELSE /\ fdata' = Append(fdata, [sheet |-> name, value |-> o])
                         /\ fexc' = fexc
                         /\ fi' = IF done THEN fi ELSE fi + 1
                         /\ fpc' = IF done THEN "returned" ELSE "indicators"
    /\ UNCHANGED <<self, notFanout, fargs, fsheets, fdate>>

FanoutArgs ==
    [date_start : {NoneV, FalseV, Str(DateString(DefaultYear + 1, 1, 1))},
     freq_type : {"auto", "annually"},
     prices_only : BOOLEAN,
     sheets : {NoSheets, <<"Income">>, <<"Meta data", "Prices">>,
               <<"Prices", "Income">>, <<"Prices", "Bogus">>},
     add_prices_metadata_sheets : BOOLEAN,
     engine : BOOLEAN,
     raise_exceptions : BOOLEAN]

InitFanout ==
    /\ self \in {o \in FMPObjects :
                    /\ Constructed(o)
                    /\ o.retries = MaxRetries
                    /\ o.current_year = DefaultYear + MaxYearSpan
                    /\ o.current_quarter = 0}
    /\ IdleFetch
    /\ IdleCollect
    /\ IdleFanout
    /\ IdleWorkers
    /\ IdleSubmit
    /\ IdleCount

NextFanout ==
    \/ \E a \in FanoutArgs : FanoutCall(a)
    \/ SheetStep
    \/ \E ds \in {NoneV, Str(DateString(DefaultYear + 1, 1, 1))} : IndicatorsCall(ds)
    \/ IndicatorStep

SpecFanout == InitFanout /\ [][NextFanout]_vars

-----------------------------------------------------------------------------
(* Properties of the fan-out machine *)

\* C10 as stated: the start date of a request is (1) the explicit date string,
\* else (2) the explicit False, else (3) the latest persisted date of the store
\* lookup, else (4) the default self.date_start.
C10_StartDatePriority ==
    \A i \in DOMAIN jobs :
       jobs[i].sheet /= "Meta data" =>
          jobs[i].start =
             IF fargs.date_start.t = "str" THEN fargs.date_start
             ELSE IF fargs.date_start = FalseV THEN FalseV
             ELSE IF fargs.engine /\ jobs[i].lookup /= NoneV
                  THEN Str(jobs[i].lookup.v \div 100)
                  ELSE self.date_start

\* C10 amended: with an engine the start date is the latest persisted date of
\* the store lookup, whatever date_start was supplied, and the default
\* self.date_start when the lookup finds nothing; without an engine it is the
\* explicit date string or False, and the default when date_start is None.
C10_StartDateResolution ==
    \A i \in DOMAIN jobs :
       jobs[i].sheet /= "Meta data" =>
          jobs[i].start =
             IF fargs.engine
             THEN IF jobs[i].lookup /= NoneV
                  THEN Str(jobs[i].lookup.v \div 100)
                  ELSE self.date_start
             ELSE IF fargs.date_start = NoneV
                  THEN self.date_start
                  ELSE fargs.date_start

\* with an engine and an explicit date string, one request started from the
\* date found by the lookup and one, whose lookup found nothing, from the default
C10_Witness ==
    /\ fargs.engine
    /\ fargs.date_start.t = "str"
    /\ \E i \in DOMAIN jobs :
          jobs[i].lookup /= NoneV /\ jobs[i].start /= fargs.date_start
    /\ \E i \in DOMAIN jobs :
          /\ jobs[i].sheet /= "Meta data"
          /\ jobs[i].lookup = NoneV /\ jobs[i].start = self.date_start

\* the series a restricted account may not request through get_all_symbol_data
RestrictedSheets == Range(PaidSheets)
\* the running or finished call is one of get_all_symbol_data
SymbolCall == fpc \in {"loop", "raised", "returned"} /\ fsheets /= IndicatorNames
\* the running or finished call is one of get_all_us_economic_indicators
IndicatorCall == fpc /= "idle" /\ fsheets = IndicatorNames
RequestedSheets == IF fargs.sheets = NoSheets THEN {} ELSE Range(fargs.sheets)
JobSheets == {jobs[i].sheet : i \in DOMAIN jobs}
DataSheets == {fdata[i].sheet : i \in DOMAIN fdata}

\* C15: under a restricted account (fmp_free_account) no request for a
\* restricted series is passed to get_json_parsed_data: fan-out makes no such
\* request, and the getter of every restricted series and of the US economic
\* indicators raises before its request.
C15_NoRestrictedRequest ==
    self.fmp_free_account =>
       /\ JobSheets \cap (RestrictedSheets \cup Range(IndicatorNames)) = {}
       /\ \A sheet \in RestrictedSheets :
             GetterRequest(sheet, fdate, fargs.freq_type).raises = "ValueError"
       /\ IndicatorRequest(fdate).raises = "ValueError"

\* a restricted account asked for "Income": the call raised and made no request
C15_Witness ==
    /\ self.fmp_free_account
    /\ SymbolCall
    /\ "Income" \in RequestedSheets
    /\ fpc = "raised"
    /\ jobs = << >>

\* C16 as stated: when a call under a restricted account requests a restricted
\* series together with permitted ones, the requests of the permitted series
\* are still made and their results returned.
C16_RestrictedFatalForSeriesOnly ==
    (/\ self.fmp_free_account
     /\ SymbolCall /\ fpc \in {"raised", "returned"}
     /\ ~fargs.prices_only
     /\ RequestedSheets \cap RestrictedSheets /= {}) =>
        \A sheet \in RequestedSheets \ RestrictedSheets :
           sheet \in Range(series_symbols) => sheet \in JobSheets

\* C16 amended: a restricted series requested under a restricted account makes
\* the whole call raise at call time: no request is made and nothing is
\* returned, for the permitted series of the call either.
C16_RestrictedAbortsCall ==
    (/\ self.fmp_free_account
     /\ SymbolCall
     /\ RequestedSheets \cap RestrictedSheets /= {}) =>
        /\ fpc = "raised"
        /\ fexc = "AssertionError"
        /\ jobs = << >>
        /\ fdata = << >>

\* "Prices" and "Income" requested under a restricted account: no request made
C16_Witness ==
    /\ self.fmp_free_account
    /\ SymbolCall
    /\ fargs.sheets = <<"Prices", "Income">>
    /\ fpc = "raised"
    /\ "Prices" \notin JobSheets

\* C17: a requested series name that is not in the catalogue self.series_symbols
\* makes the call raise at call time, before any request of the call is made.
C17_UnknownSheetRaisesAtCall ==
    (SymbolCall /\ ~(RequestedSheets \subseteq Range(series_symbols))) =>
        /\ fpc = "raised"
        /\ fexc = "AssertionError"
        /\ fsheets = << >>
        /\ jobs = << >>

\* a paid account asked for "Prices" and the unknown "Bogus"
C17_Witness ==
    /\ ~self.fmp_free_account
    /\ SymbolCall
    /\ fargs.sheets = <<"Prices", "Bogus">>
    /\ fexc = "AssertionError"
    /\ jobs = << >>

\* C18 as stated: every call that is not prices-only and returns has both
\* "Prices" and "Meta data" in its result, whatever the other arguments.
C18_MandatoryAlwaysAdded ==
    (SymbolCall /\ fpc = "returned" /\ ~fargs.prices_only) =>
        {"Prices", "Meta data"} \subseteq DataSheets

\* C18 amended: every call that is not prices-only, keeps the default
\* add_prices_metadata_sheets=True and returns has both "Prices" and
\* "Meta data" in its result, whatever the sheets selection.
C18_MandatoryAddedByDefault ==
    (/\ SymbolCall /\ fpc = "returned"
     /\ ~fargs.prices_only
     /\ fargs.add_prices_metadata_sheets) =>
        {"Prices", "Meta data"} \subseteq DataSheets

\* the selection <<"Income">> returned with "Prices" and "Meta data" added
C18_Witness ==
    /\ SymbolCall /\ fpc = "returned"
    /\ fargs.sheets = <<"Income">>
    /\ ~fargs.prices_only
    /\ fargs.add_prices_metadata_sheets
    /\ DataSheets = {"Income", "Prices", "Meta data"}

\* C19: a failed or inconsistent result of one request does not abort the
\* fan-out call (get_all_symbol_data was not asked to re-raise with
\* raise_exceptions=True): the call goes on with the remaining requests.
C19_ErrorsStayLocal ==
    \A i \in DOMAIN jobs :
       (/\ jobs[i].out \in {"None", "RequestError"}
        /\ ~(SymbolCall /\ fargs.raise_exceptions)) =>
           ~(fpc = "raised" /\ i = Len(jobs))

\* C25: with raise_exceptions=True get_all_symbol_data raises when the data of
\* a requested sheet is missing (its request failed or returned nothing), and
\* with raise_exceptions=False it stores None under that sheet.
C25_RaiseExceptionsForMissingData ==
    SymbolCall =>
       \A i \in DOMAIN jobs :
          jobs[i].out = "None" =>
             IF fargs.raise_exceptions
             THEN fpc = "raised" /\ i = Len(jobs)
             ELSE \E j \in DOMAIN fdata :
                     fdata[j] = [sheet |-> jobs[i].sheet, value |-> "None"]

-----------------------------------------------------------------------------
(* FMP.celery_submit_several_jobs_all_data *)

\* steps 0.2 and 0.3 of get_all_symbol_data: the sheets of the loop
SymbolSheets(a) ==
    LET s0 == IF a.sheets = NoSheets THEN series_symbols ELSE a.sheets
        s1 == IF a.add_prices_metadata_sheets
              THEN ListUnion(s0, <<"Prices", "Meta data">>) ELSE s0
    IN IF a.prices_only THEN <<"Prices">> ELSE s1

\* the loop of get_all_symbol_data under celery_submit and without an engine:
\* the sheets whose job was submitted, and the exception that ended the loop
RECURSIVE SubmitSheets(_, _, _, _)
SubmitSheets(sheets, date, freq_type, done) ==
    IF sheets = << >> THEN [raises |-> "none", sheets |-> done]
    ELSE LET sheet == Head(sheets)
             ds == IF sheet /= "Meta data"
                   THEN helper_start_date(date, FALSE, NoneV, TRUE) ELSE date
             rq == GetterRequest(sheet, ds, freq_type)
         IN IF rq.raises /= "none"
            THEN [raises |-> rq.raises, sheets |-> done]
            ELSE IF ~self.flag_celery_workers_running
            THEN [raises |-> "AssertionError", sheets |-> done]
            ELSE SubmitSheets(Tail(sheets), ds, freq_type, Append(done, sheet))

\* one call of get_all_symbol_data made by the loop of lines 308-317
get_all_symbol_data(a) ==
    IF a.sheets /= NoSheets /\ ~is_sublist(a.sheets, series_symbols)
    THEN [raises |-> "AssertionError", sheets |-> << >>]
    ELSE SubmitSheets(SymbolSheets(a), a.date_start, a.freq_type, << >>)

\* step 0 of celery_submit_several_jobs_all_data(symbols, ...)
SubmitCall(a) ==
    /\ spc = "idle"
    /\ sargs' = a
    /\ si' = 1
    /\ spc' = "loop"
    /\ UNCHANGED <<self, notSubmit, sd, submitted, sbatch, sexc>>

\* one iteration of the loop of step 1: d[symbol] = get_all_symbol_data(...)
SubmitSymbol ==
    /\ spc = "loop"
    /\ si <= Len(sargs.symbols)
    /\ LET symbol == sargs.symbols[si]
           r == get_all_symbol_data(sargs)
           base == Len(submitted)
       IN /\ submitted' = submitted \o
                 [j \in 1..Len(r.sheets) |-> <<r.sheets[j], symbol>>]
          /\ IF r.raises /= "none"
             THEN /\ spc' = "raised"
                  /\ sexc' = r.raises
                  /\ UNCHANGED <<sd, si>>
             ELSE /\ sd' = [k \in DOMAIN sd \cup {symbol} |->
                              IF k = symbol
                              THEN [sh \in Range(r.sheets) |->
                                      base + (CHOOSE j \in DOMAIN r.sheets :
                                                 r.sheets[j] = sh)]
                              ELSE sd[k]]
                  /\ si' = si + 1
                  /\ UNCHANGED <<spc, sexc>>
    /\ UNCHANGED <<self, notSubmit, sargs, sbatch>>

\* step 2: the dictionary is turned around, the sheets being those of the
\* first symbol (dicts.dict_first_val, which indexes the first key)
SubmitReturn ==
    /\ spc = "loop"
    /\ si > Len(sargs.symbols)
    /\ IF DOMAIN sd = {}
       THEN /\ spc' = "raised"
            /\ sexc' = "IndexError"
            /\ sbatch' = sbatch
       ELSE /\ sbatch' = [key \in DOMAIN sd[sargs.symbols[1]] |->
                            [k \in {x \in DOMAIN sd : key \in DOMAIN sd[x]} |->
                               sd[k][key]]]
            /\ spc' = "returned"
            /\ sexc' = sexc
    /\ UNCHANGED <<self, notSubmit, sargs, si, sd, submitted>>

\* the symbol lists of at most MaxSymbols symbols, repetitions included
SymbolLists ==
    UNION {[1..k -> Range(SubSeq(SymbolNames, 1, MaxSymbols))] : k \in 0..MaxSymbols}

SubmitArgs ==
    [symbols : SymbolLists,
     date_start : {NoneV, Str(DateString(DefaultYear + 1, 1, 1))},
     freq_type : {"auto"},
     prices_only : BOOLEAN,
     sheets : {NoSheets, <<"Income">>, <<"Prices", "Income">>},
     add_prices_metadata_sheets : BOOLEAN]

InitSubmit ==
    /\ self \in {o \in FMPObjects :
                    /\ Constructed(o)
                    /\ o.task_queuing = "celery_submit"
                    /\ o.retries = MaxRetries
                    /\ o.current_year = DefaultYear + MaxYearSpan
                    /\ o.current_quarter = 0}
    /\ IdleFetch
    /\ IdleCollect
    /\ IdleFanout
    /\ IdleWorkers
    /\ IdleSubmit
    /\ IdleCount

NextSubmit ==
    \/ \E a \in SubmitArgs : SubmitCall(a)
    \/ SubmitSymbol
    \/ SubmitReturn

SpecSubmit == InitSubmit /\ [][NextSubmit]_vars

\* the handles held by the returned batch
BatchHandleIds == {sbatch[sh][k] : <<sh, k>> \in
                     UNION {{<<x, y>> : y \in DOMAIN sbatch[x]} : x \in DOMAIN sbatch}}

\* C27: under celery_submit a returned batch rests on exactly one submitted job
\* per (series, symbol) pair of the requested series and the supplied symbols,
\* and the batch holds the handle of every job that was submitted, for every
\* symbol list, lists with repeated symbols included.
C27_OneJobPerPair ==
    spc = "returned" =>
       /\ \A sh \in Range(SymbolSheets(sargs)), k \in Range(sargs.symbols) :
             Cardinality({i \in DOMAIN submitted : submitted[i] = <<sh, k>>}) = 1
       /\ \A i \in DOMAIN submitted : i \in BatchHandleIds

-----------------------------------------------------------------------------
(* count_keys_nested of src/utils/dictionaries.py *)

\* A nested dictionary is a function on the paths of its keys; the value at a
\* path is a dictionary or an integer.
DictNode == [isdict |-> TRUE, v |-> 0]
Leaf(x) == [isdict |-> FALSE, v |-> x]

\* list(d.keys())
Keys(d) == {p[1] : p \in DOMAIN d}
\* d[k], for a key whose value is a dictionary
Sub(d, k) ==
    [p \in {Tail(q) : q \in {x \in DOMAIN d : Len(x) > 1 /\ x[1] = k}} |->
        d[<<k>> \o p]]
\* the dictionary with the one key k holding the dictionary c
Nested(k, c) ==
    [p \in {<<k>>} \cup {<<k>> \o q : q \in DOMAIN c} |->
        IF p = <<k>> THEN DictNode ELSE c[Tail(p)]]

IntResult(x) == [t |-> "int", n |-> x, d |-> << >>]
DictResult(c) == [t |-> "dict", n |-> 0, d |-> c]

\* step 2, level = 0, lines 261-273
RECURSIVE CountLevel0(_)
RECURSIVE SumDictValues(_, _)
SumDictValues(d, ks) ==
    IF ks = {} THEN 0
    ELSE LET k == CHOOSE x \in ks : TRUE
         IN (IF d[<<k>>].isdict THEN CountLevel0(Sub(d, k)) ELSE 0)
               + SumDictValues(d, ks \ {k})
CountLevel0(d) ==
    LET has_dict_values == \E k \in Keys(d) : d[<<k>>].isdict
    IN IF has_dict_values THEN SumDictValues(d, Keys(d))
       ELSE Cardinality(Keys(d))

\* step 3, level > 0, lines 275-287
RECURSIVE CountLevelN(_, _)
RECURSIVE CountItems(_, _, _)
CountItems(d, level, ks) ==
    IF ks = {} THEN << >>
    ELSE LET key == CHOOSE x \in ks : TRUE
             rest == CountItems(d, level, ks \ {key})
             item == IF d[<<key>>].isdict /\ level > 1
                     THEN Nested(key, CountLevelN(Sub(d, key), level - 1))
                     ELSE [p \in {<<key>>} |->
                             Leaf(IF d[<<key>>].isdict
                                  THEN Cardinality(Keys(Sub(d, key))) ELSE 1)]
         IN [p \in DOMAIN item \cup DOMAIN rest |->
               IF p \in DOMAIN item THEN item[p] ELSE rest[p]]
CountLevelN(d, level) == CountItems(d, level, Keys(d))

\* count_keys_nested(d, level) for a dictionary d and level >= 0
count_keys_nested(d, level) ==
    IF level = 0 THEN IntResult(CountLevel0(d))
    ELSE DictResult(CountLevelN(d, level))

\* the dictionary of the docstring,
\* {"a": 1, "b": {"c": 2, "d": 3}, "e": {"f": {"g": 4, "h": 5}}}
DocExample ==
    (<<"a">> :> Leaf(1)) @@ (<<"b">> :> DictNode) @@ (<<"b", "c">> :> Leaf(2))
       @@ (<<"b", "d">> :> Leaf(3)) @@ (<<"e">> :> DictNode)
       @@ (<<"e", "f">> :> DictNode) @@ (<<"e", "f", "g">> :> Leaf(4))
       @@ (<<"e", "f", "h">> :> Leaf(5))

\* the dictionaries left when keys of the docstring's dictionary are deleted
Dictionaries ==
    {[p \in S |-> DocExample[p]] :
        S \in {T \in SUBSET DOMAIN DocExample :
                 \A p \in T : Len(p) > 1 => SubSeq(p, 1, Len(p) - 1) \in T}}

\* a call with level >= 0
CountKeys(d, level) ==
    /\ kpc = "idle"
    /\ level >= 0
    /\ kd' = d
    /\ klevel' = level
    /\ kres' = count_keys_nested(d, level)
    /\ kpc' = "returned"
    /\ UNCHANGED <<self, notCount>>

\* the assertion "level must be greater than or equal to 0", line 254
CountKeysRejects(d, level) ==
    /\ kpc = "idle"
    /\ level < 0
    /\ kd' = d
    /\ klevel' = level
    /\ kpc' = "raised"
    /\ UNCHANGED <<self, notCount, kres>>

InitCount ==
    /\ self \in {o \in FMPObjects :
                    /\ Constructed(o)
                    /\ o.task_queuing = "legacy"
                    /\ o.retries = MaxRetries
                    /\ ~o.fmp_free_account
                    /\ o.current_year = DefaultYear
                    /\ o.current_quarter = 0}
    /\ IdleFetch
    /\ IdleCollect
    /\ IdleFanout
    /\ IdleWorkers
    /\ IdleSubmit
    /\ IdleCount

NextCount ==
    \/ \E d \in Dictionaries, level \in 0..MaxLevel : CountKeys(d, level)
    \/ \E d \in Dictionaries, level \in {-1} : CountKeysRejects(d, level)

SpecCount == InitCount /\ [][NextCount]_vars

\* the values the docstring gives for its dictionary
DocLevel1 ==
    (<<"a">> :> Leaf(1)) @@ (<<"b">> :> Leaf(2)) @@ (<<"e">> :> Leaf(2))
DocLevel2 ==
    (<<"a">> :> Leaf(1)) @@ (<<"b">> :> DictNode) @@ (<<"b", "c">> :> Leaf(1))
       @@ (<<"b", "d">> :> Leaf(1)) @@ (<<"e">> :> DictNode)
       @@ (<<"e", "f">> :> DictNode) @@ (<<"e", "f", "g">> :> Leaf(1))
       @@ (<<"e", "f", "h">> :> Leaf(1))

\* C30: count_keys_nested(d, level) returns what its docstring states: an
\* integer for level 0 and a dictionary for level > 0, and for the dictionary
\* of the docstring 5 for level 0, {a: 1, b: 2, e: 2} for level 1 and
\* {a: 1, b: {c: 1, d: 1}, e: {f: {g: 1, h: 1}}} for levels 2 and 3.
C30_DocstringExamples ==
    kpc = "returned" =>
       /\ kres.t = IF klevel = 0 THEN "int" ELSE "dict"
       /\ kd = DocExample =>
            /\ klevel = 0 => kres = IntResult(5)
            /\ klevel = 1 => kres = DictResult(DocLevel1)
            /\ klevel \in {2, 3} => kres = DictResult(DocLevel2)

-----------------------------------------------------------------------------
(* Further properties of the request machine *)

\* C11: a date_start string that has not 10 characters is rejected before any
\* network call is made or any job is submitted.
C11_InvalidDateRejected ==
    (args.date_start.t = "str" /\ len(args.date_start) /= 10) => trace = << >>

\* the days on which the constructor can have run to build self
ConstructionDays ==
    {t \in Todays : /\ self.current_year = t.year
                    /\ self.current_quarter = (t.month - 1) \div 3}

\* C12: every quarterly request carries limit = 4 * (current_year - start_year)
\* + current_quarter_index with current_quarter_index = (current_month - 1)
\* div 3, and every annual request carries limit = current_year - start_year,
\* in the auto, quarterly and annually modes alike.
C12_LimitFormula ==
    \A i \in DOMAIN trace : \A t \in ConstructionDays :
       LET start_year == args.date_start.v \div 10000 IN
       /\ trace[i].url.period = "quarter" =>
            /\ args.freq_type \in {"auto", "quarterly"}
            /\ trace[i].url.limit = 4 * (t.year - start_year) + (t.month - 1) \div 3
       /\ trace[i].url.period = "annual" =>
            /\ args.freq_type \in {"auto", "annually"}
            /\ trace[i].url.limit = t.year - start_year

\* an auto call in the fourth quarter, a year after the start year, that made
\* the quarterly request and then the annual one
C12_Witness ==
    /\ args.freq_type = "auto"
    /\ self.current_quarter = 3
    /\ self.current_year = (args.date_start.v \div 10000) + 1
    /\ \E i \in DOMAIN trace : trace[i].url = UrlPeriod("quarter", 7)
    /\ \E i \in DOMAIN trace : trace[i].url = UrlPeriod("annual", 1)

\* quarters are numbered 4 * year + quarter_index; the last day of a quarter
\* and of a year, as dates YYYYMMDD
QuarterEnd(a) ==
    DateString(a \div 4, 3 * ((a % 4) + 1), IF a % 4 \in {0, 3} THEN 31 ELSE 30)
YearEnd(y) == DateString(y, 12, 31)
\* the start date of the call is a date on or before the day of construction
StartOnOrBeforeToday ==
    /\ args.date_start.t = "str"
    /\ len(args.date_start) = 10
    /\ \E t \in ConstructionDays :
          args.date_start.v \div 100 <= t.year * 100 + t.month

\* C13: for a start date on or before today, limit is never negative and the
\* limit most recent quarterly (annual) periods, counted back from the current
\* period, include no period that ends before the start date.
C13_WindowWithinDates ==
    \A i \in DOMAIN trace :
       (/\ StartOnOrBeforeToday
        /\ trace[i].ev \in {"urlopen", "submit"}
        /\ trace[i].url.period /= "none") =>
          LET k == trace[i].url.limit
              oldest_quarter == 4 * self.current_year + self.current_quarter - k + 1
              oldest_year == self.current_year - k + 1
          IN /\ k >= 0
             /\ (k >= 1 /\ trace[i].url.period = "quarter") =>
                   QuarterEnd(oldest_quarter) >= args.date_start.v
             /\ (k >= 1 /\ trace[i].url.period = "annual") =>
                   YearEnd(oldest_year) >= args.date_start.v

\* C20: under celery_wait every job that get_json_parsed_data waited for is
\* forgotten afterwards (forget is called on its handle), whether the job
\* completed with a result or with a failure.
C20_WaitThenForget ==
    self.task_queuing = "celery_wait" =>
       \A i \in DOMAIN trace :
          trace[i].ev = "wait" =>
             /\ i < Len(trace)
             /\ trace[i + 1].ev = "forget"
             /\ trace[i + 1].url = trace[i].url

\* C24: retries is the number of times the download is tried again after a
\* failed attempt: a legacy request whose transport always fails gives up after
\* the first attempt and retries further attempts.
C24_RetriesAreFurtherAttempts ==
    self.task_queuing = "legacy" =>
       \A u \in UrlsInTrace :
          (Raised(u, "Request error for the URL") /\ Answered(u, Payloads) = {}) =>
             Calls(u) = 1 + self.retries

\* C28: in the legacy loop every urlopen attempt is preceded by a sleep of
\* time_wait_query, and every connection-level failure is followed by a sleep
\* of time_wait_retry before the next attempt or the exhaustion error.
C28_SleepsAroundAttempts ==
    self.task_queuing = "legacy" =>
       \A i \in DOMAIN trace :
          trace[i].ev = "urlopen" =>
             /\ i > 1
             /\ trace[i - 1] = [ev |-> "sleep", arg |-> "time_wait_query",
                                url |-> trace[i].url]
             /\ trace[i].arg \in ConnectionErrors =>
                   /\ i < Len(trace)
                   /\ trace[i + 1] = [ev |-> "sleep", arg |-> "time_wait_retry",
                                      url |-> trace[i].url]

\* a request failed twice, slept after each failure, and then exhausted its retries
C28_Witness ==
    /\ self.task_queuing = "legacy"
    /\ self.retries = 2
    /\ Len(trace) >= 7
    /\ trace[2].ev = "urlopen" /\ trace[2].arg \in ConnectionErrors
    /\ trace[3].ev = "sleep" /\ trace[3].arg = "time_wait_retry"
    /\ trace[4].ev = "sleep" /\ trace[4].arg = "time_wait_query"
    /\ trace[5].ev = "urlopen" /\ trace[5].arg \in ConnectionErrors
    /\ trace[7].ev = "raise"

\* C26: under legacy and celery_wait helper_data_auto_period returns None and
\* does not raise when the data is not available: whenever a request of the
\* call failed and none returned data, the call ends with None; it raises only
\* for its arguments (TypeError, ValueError) or for workers that do not run.
C26_NoneWhenUnavailable ==
    self.task_queuing \in {"legacy", "celery_wait"} =>
       /\ hpc = "raised" => exc \in {"TypeError", "ValueError", "AssertionError"}
       /\ (hpc = "returned" /\ result /= ResData) => result = ResNone

-----------------------------------------------------------------------------
InitFetch ==
    /\ self \in {o \in FMPObjects : Constructed(o) /\ ~o.fmp_free_account}
    /\ hpc = "idle"
    /\ gpc = "idle"
    /\ args = [date_start |-> NoneV, freq_type |-> "None"]
    /\ url = UrlPlain
    /\ n = 0
    /\ trace = << >>
    /\ handles = << >>
    /\ result = NoResult
    /\ exc = "none"
    /\ IdleCollect
    /\ IdleFanout
    /\ IdleWorkers
    /\ IdleSubmit
    /\ IdleCount

NextFetch ==
    \/ \E ds \in {NoneV, FalseV, TextInvalid} \cup DateStrings, ft \in FreqTypes :
          HelperCall(ds, ft)
    \/ UrlopenFails
    \/ UrlopenSucceeds
    \/ RetriesExhausted
    \/ CeleryAssertFails
    \/ CeleryWaitReturns
    \/ CeleryWaitRaises
    \/ CelerySubmit
    \/ HandleCollected

SpecFetch == InitFetch /\ [][NextFetch]_vars

=============================================================================
